---- MODULE Spec2Model ----
(***************************************************************************)
(* A model of the wyvern client library:                                   *)
(*   - wyvern/extensions/tasks.py : Task (run / stop / update_delay and    *)
(*     the background _runner coroutine) and the task() builder;           *)
(*   - wyvern/clients.py          : GatewayClient.start, and the slash     *)
(*     command registries, set_prefix and include of CommandsClient;       *)
(*   - wyvern/components/modals.py: Modal and its text inputs;             *)
(*   - wyvern/utils.py            : create_timestamp.                      *)
(* The asyncio event loop is single threaded and cooperative: the code     *)
(* between two awaits runs atomically, so every action below is one such   *)
(* stretch of code.                                                        *)
(***************************************************************************)
EXTENDS Integers, Sequences, FiniteSets, TLC

VARIABLES
    \* ---- Task (tasks.py:11-48)
    delay,                \* Task.delay
    wait_until_complete,  \* Task.wait_until_complete
    is_running,           \* Task.is_running
    runners,              \* the _runner coroutines created by run(), in creation order
    detached,             \* invocations started with loop.create_task and not finished
    ev,                   \* the last step taken on the Task (what the caller/observer saw)
    calls,                \* per runner: the arguments of its run() call and what _runner received
    \* ---- task() builder (tasks.py:51-80)
    builder,
    \* ---- GatewayClient.start (clients.py:163-192)
    spc,                  \* where start() is suspended
    log,                  \* what start() has done so far, in order
    gateway,              \* gateway._start_activity, gateway._start_status
    client_id,            \* GatewayClient._client_id
    res,                  \* the user returned by rest.fetch_client_user()
    session_open,         \* rest._session is not closed
    pending,              \* the exception caught by the except clause
    outcome,              \* how start() ended, as its caller sees it
    \* ---- CommandsClient registries (clients.py:213-232)
    slash_commands,       \* the slash_commands dict of each object that holds one
    slash_groups,         \* the slash_groups dict of each object that holds one
    rev,                  \* the last registration call and how it ended
    registered,           \* who registered what: the calls that returned normally
    \* ---- CommandsClient.set_prefix (clients.py:257-276)
    prefix_type,          \* CommandsClient.prefix_type of each instance
    pev,                  \* the last set_prefix call and how it ended
    \* ---- CommandsClient.include (clients.py:244-255)
    listeners,            \* event_handler's listeners, of each instance
    iev,                  \* the last include call and how it ended
    \* ---- Modal (modals.py:57-70)
    lists,                \* the list objects on the heap, by reference
    modals,               \* the Modal objects, in creation order
    \* ---- create_timestamp (utils.py:17-34)
    ts                    \* the last create_timestamp call: the host's clock and zone, the argument, the result

taskVars == <<delay, wait_until_complete, is_running, runners, detached, ev, calls>>
builderVars == <<builder>>
startVars == <<spc, log, gateway, client_id, res, session_open, pending, outcome>>
regVars == <<slash_commands, slash_groups, rev, registered>>
prefixVars == <<prefix_type, pev>>
inclVars == <<listeners, iev>>
modalVars == <<lists, modals>>
tsVars == <<ts>>
\* what the Task's operations never touch
nonTaskVars == <<builderVars, startVars, regVars, prefixVars, inclVars, modalVars, tsVars>>
\* what the builder never touches
nonBuilderVars == <<taskVars, startVars, regVars, prefixVars, inclVars, modalVars, tsVars>>
\* what start() never touches
nonStartVars == <<taskVars, builderVars, regVars, prefixVars, inclVars, modalVars, tsVars>>
\* what the registration calls never touch
nonRegVars == <<taskVars, builderVars, startVars, prefixVars, inclVars, modalVars, tsVars>>
\* what CommandsClient.set_prefix never touches
nonPrefixVars == <<taskVars, builderVars, startVars, regVars, inclVars, modalVars, tsVars>>
\* what CommandsClient.include never touches
nonInclVars == <<taskVars, builderVars, startVars, regVars, prefixVars, modalVars, tsVars>>
\* what include never touches: all but the registries and the listeners
nonRegOrInclVars == <<taskVars, builderVars, startVars, prefixVars, modalVars, tsVars>>
\* what Modal never touches
nonModalVars == <<taskVars, builderVars, startVars, regVars, prefixVars, inclVars, tsVars>>
\* what create_timestamp never touches
nonTsVars == <<taskVars, builderVars, startVars, regVars, prefixVars, inclVars, modalVars>>
vars == <<taskVars, builderVars, startVars, regVars, prefixVars, inclVars, modalVars, tsVars>>

(***************************************************************************)
(* Bounds of the model.                                                    *)
(***************************************************************************)
\* run() calls that succeed in one behaviour (each creates one runner)
MaxRunners == 2
\* detached invocations (wait_until_complete = False) alive at once
MaxInflight == 2

\* delay values (seconds) the Task is built with or updated to
Delays == {30, 60}

RunnerIds == 1..Len(runners)

(***************************************************************************)
(* Task                                                                    *)
(***************************************************************************)

\* A runner: where the coroutine is suspended, the length of the sleep it is
\* in (0 when not sleeping) and whether stop() was called during that sleep.
NewRunner == [pc |-> "scheduled", sleep_for |-> 0, stopped_asleep |-> FALSE]

Alive(r) == runners[r].pc \in {"scheduled", "awaiting", "sleeping"}

\* invocations of the trigger that have begun and not finished
InProgress == Cardinality({r \in RunnerIds : runners[r].pc = "awaiting"}) + detached

Event(op, r, fired, after_stop) ==
    [op |-> op, r |-> r, fired |-> fired, after_stop |-> after_stop]

InitTaskVars ==
    /\ delay \in Delays
    /\ wait_until_complete \in BOOLEAN
    /\ is_running = FALSE
    /\ runners = <<>>
    /\ detached = 0
    /\ calls = <<>>
    /\ ev = Event("init", 0, FALSE, FALSE)

\* the arguments of a run() call: positional values, and keyword arguments as
\* the (name, value) pairs of the dict, in insertion order
RunArguments ==
    { [args |-> <<"a">>, kwargs |-> <<>>],
      [args |-> <<>>, kwargs |-> << <<"x", "b">> >>] }

\* iterating a dict yields its keys
Keys(kwargs) == [i \in 1..Len(kwargs) |-> kwargs[i][1]]

\* what _runner receives from self._runner(*args, *kwargs): "*kwargs" unpacks
\* the dict as an iterable, so its keys become further positional arguments
RunnerArguments(args, kwargs) == [args |-> args \o Keys(kwargs), kwargs |-> <<>>]

\* what the trigger receives from self.trigger(*args, **kwargs) in runner r
TriggerArguments(r) == calls[r].received

UpdateDelayRescheduling(d) ==
    /\ delay' = d
    /\ runners' = [r \in RunnerIds |->
                     IF runners[r].pc = "sleeping"
                     THEN [runners[r] EXCEPT !.sleep_for = d]
                     ELSE runners[r]]
    /\ ev' = Event("update_delay", 0, FALSE, FALSE)
    /\ UNCHANGED <<wait_until_complete, is_running, detached, calls, nonTaskVars>>

\* Task.update_delay
UpdateDelay(d) ==
    /\ delay' = d
    /\ ev' = Event("update_delay", 0, FALSE, FALSE)
    /\ UNCHANGED <<wait_until_complete, is_running, runners, detached, calls, nonTaskVars>>

RunAlways ==
    /\ Len(runners) < MaxRunners
    /\ is_running' = TRUE
    /\ runners' = Append(runners, NewRunner)
    /\ \E call \in RunArguments :
          calls' = Append(calls, [args |-> call.args, kwargs |-> call.kwargs,
                                  received |-> RunnerArguments(call.args, call.kwargs)])
    /\ ev' = Event("run", Len(runners) + 1, FALSE, FALSE)
    /\ UNCHANGED <<delay, wait_until_complete, detached, nonTaskVars>>

\* Task.run
Run ==
    \/ /\ is_running = FALSE
       /\ Len(runners) < MaxRunners
       /\ is_running' = TRUE
       /\ runners' = Append(runners, NewRunner)
       /\ \E call \in RunArguments :
             calls' = Append(calls, [args |-> call.args, kwargs |-> call.kwargs,
                                     received |-> RunnerArguments(call.args, call.kwargs)])
       /\ ev' = Event("run", Len(runners) + 1, FALSE, FALSE)
       /\ UNCHANGED <<delay, wait_until_complete, detached, nonTaskVars>>
    \/ /\ is_running # FALSE
       /\ ev' = Event("run_error", 0, FALSE, FALSE)
       /\ UNCHANGED <<delay, wait_until_complete, is_running, runners, detached, calls, nonTaskVars>>

StopCancelling ==
    /\ is_running' = FALSE
    /\ runners' = [r \in RunnerIds |->
                     IF runners[r].pc \in {"awaiting", "sleeping"}
                     THEN [pc |-> "done", sleep_for |-> 0, stopped_asleep |-> FALSE]
                     ELSE runners[r]]
    /\ detached' = 0
    /\ ev' = Event("stop", 0, FALSE, FALSE)
    /\ UNCHANGED <<delay, wait_until_complete, calls, nonTaskVars>>

\* Task.stop
Stop ==
    /\ is_running' = FALSE
    /\ runners' = [r \in RunnerIds |->
                     IF runners[r].pc = "sleeping"
                     THEN [runners[r] EXCEPT !.stopped_asleep = TRUE]
                     ELSE runners[r]]
    /\ ev' = Event("stop", 0, FALSE, FALSE)
    /\ UNCHANGED <<delay, wait_until_complete, detached, calls, nonTaskVars>>

LoopConditionAlways == TRUE

\* the condition of the runner's while loop
LoopCondition == is_running = TRUE

Sleeping == [pc |-> "sleeping", sleep_for |-> delay, stopped_asleep |-> FALSE]

LoopHeadAwaiting(r, op) ==
    IF LoopCondition
    THEN /\ runners' = [runners EXCEPT ![r] =
                          [pc |-> "awaiting", sleep_for |-> 0, stopped_asleep |-> FALSE]]
         /\ ev' = Event(op, r, TRUE, runners[r].stopped_asleep)
         /\ UNCHANGED detached
    ELSE /\ runners' = [runners EXCEPT ![r] =
                          [pc |-> "done", sleep_for |-> 0, stopped_asleep |-> FALSE]]
         /\ ev' = Event(op, r, FALSE, runners[r].stopped_asleep)
         /\ UNCHANGED detached

\* One pass of the runner from the head of its loop to its next await:
\* the flag is tested; if set the trigger is started (detached, then the sleep
\* begins at once; or awaited), otherwise the coroutine returns.
LoopHead(r, op) ==
    IF LoopCondition
    THEN IF wait_until_complete = FALSE
         THEN /\ detached < MaxInflight
              /\ detached' = detached + 1
              /\ runners' = [runners EXCEPT ![r] = Sleeping]
              /\ ev' = Event(op, r, TRUE, runners[r].stopped_asleep)
         ELSE /\ runners' = [runners EXCEPT ![r] =
                               [pc |-> "awaiting", sleep_for |-> 0, stopped_asleep |-> FALSE]]
              /\ ev' = Event(op, r, TRUE, runners[r].stopped_asleep)
              /\ UNCHANGED detached
    ELSE /\ runners' = [runners EXCEPT ![r] =
                          [pc |-> "done", sleep_for |-> 0, stopped_asleep |-> FALSE]]
         /\ ev' = Event(op, r, FALSE, runners[r].stopped_asleep)
         /\ UNCHANGED detached

\* the event loop starts the coroutine created by run()
RunnerStart(r) ==
    /\ runners[r].pc = "scheduled"
    /\ LoopHead(r, "start")
    /\ UNCHANGED <<delay, wait_until_complete, is_running, calls, nonTaskVars>>

\* asyncio.sleep(self.delay) completes
SleepDone(r) ==
    /\ runners[r].pc = "sleeping"
    /\ LoopHead(r, "wake")
    /\ UNCHANGED <<delay, wait_until_complete, is_running, calls, nonTaskVars>>

\* the awaited trigger returns: the runner goes on to asyncio.sleep(self.delay)
TriggerReturns(r) ==
    /\ runners[r].pc = "awaiting"
    /\ runners' = [runners EXCEPT ![r] = Sleeping]
    /\ ev' = Event("trigger_return", r, FALSE, FALSE)
    /\ UNCHANGED <<delay, wait_until_complete, is_running, detached, calls, nonTaskVars>>

\* the awaited trigger raises: the exception ends the runner coroutine
TriggerRaises(r) ==
    /\ runners[r].pc = "awaiting"
    /\ runners' = [runners EXCEPT ![r] =
                     [pc |-> "failed", sleep_for |-> 0, stopped_asleep |-> FALSE]]
    /\ ev' = Event("trigger_raise", r, FALSE, FALSE)
    /\ UNCHANGED <<delay, wait_until_complete, is_running, detached, calls, nonTaskVars>>

\* an invocation started with loop.create_task finishes (returning or raising)
DetachedFinishes ==
    /\ detached > 0
    /\ detached' = detached - 1
    /\ ev' = Event("detached_finish", 0, FALSE, FALSE)
    /\ UNCHANGED <<delay, wait_until_complete, is_running, runners, calls, nonTaskVars>>

RunnerStep(r) ==
    \/ RunnerStart(r)
    \/ SleepDone(r)
    \/ TriggerReturns(r)
    \/ TriggerRaises(r)

(***************************************************************************)
(* task() builder                                                          *)
(***************************************************************************)
\* an optional argument: None, or a number
None == <<>>
Some(v) == <<v>>

\* largest number given as s, m or h
MaxArg == 2

DelayArgs == {None} \cup {Some(v) : v \in 0..MaxArg}

IsNotNone(x) == x # None

\* Python truthiness of "float | None": None and 0 are false
Truthy(x) == x # None /\ x[1] # 0

\* inner(trigger) of task(s, m, h, wait_until_complete): the Task it returns, or
\* the exception it ends with
Inner(s, m, h, w) ==
    LET delays == Cardinality({i \in 1..3 : IsNotNone(<<s, m, h>>[i])})
        MkTask(d) == [kind |-> "Task", delay |-> d,
                      wait_until_complete |-> w, is_running |-> FALSE]
    IN  IF delays > 1 \/ delays = 0
        THEN [kind |-> "ValueError"]
        ELSE IF Truthy(s) THEN MkTask(s[1])
        ELSE IF Truthy(m) THEN MkTask(m[1] * 60)
        ELSE IF Truthy(h) THEN MkTask(h[1] * 60 * 60)
        ELSE [kind |-> "UnboundLocalError"]   \* "delay" was never bound

InitBuilderVars ==
    \E s \in DelayArgs, m \in DelayArgs, h \in DelayArgs, w \in BOOLEAN :
        builder = [applied |-> FALSE, s |-> s, m |-> m, h |-> h, w |-> w,
                   result |-> [kind |-> "pending"]]

\* task(s, m, h, wait_until_complete)(trigger)
ApplyBuilder ==
    /\ builder.applied = FALSE
    /\ builder' = [builder EXCEPT !.applied = TRUE,
                                  !.result = Inner(builder.s, builder.m, builder.h, builder.w)]
    /\ UNCHANGED nonBuilderVars

(***************************************************************************)
(* GatewayClient.start                                                     *)
(***************************************************************************)
\* the activity / status arguments of start(): None or a presence value
Activities == {"None", "playing"}
Statuses == {"None", "online", "idle", "dnd"}

\* ids of the user that rest.fetch_client_user() may return
UserIds == {101, 202}

\* one thing start() did: a call, an assignment, a dispatch
Did(op, arg) == [op |-> op, arg |-> arg]

\* no exception
NoError == [error |-> "none", from |-> "none"]

InitStartVars ==
    /\ spc = "idle"
    /\ log = <<>>
    /\ gateway = [_start_activity |-> "unset", _start_status |-> "unset"]
    /\ client_id = 0
    /\ res = None
    /\ session_open = TRUE
    /\ pending = NoError
    /\ outcome = NoError

PrologueStartingLast(activity, status) ==
    << Did("call", "_listeners_setups"),
       Did("set _start_activity", activity),
       Did("set _start_status", status),
       Did("await", "_get_socket_ready"),
       Did("dispatch STARTING", "self") >>

\* lines 177-181, up to the first await
Prologue(activity, status) ==
    << Did("call", "_listeners_setups"),
       Did("dispatch STARTING", "self"),
       Did("set _start_activity", activity),
       Did("set _start_status", status),
       Did("await", "_get_socket_ready") >>

\* start(activity=..., status=...) is called and runs to its first await
StartCall(activity, status) ==
    /\ spc = "idle"
    /\ log' = log \o Prologue(activity, status)
    /\ gateway' = [_start_activity |-> activity, _start_status |-> status]
    /\ spc' = "await_socket"
    /\ UNCHANGED <<client_id, res, session_open, pending, outcome, nonStartVars>>

\* gateway._get_socket_ready() returns: start() goes on to the REST fetch
SocketReady ==
    /\ spc = "await_socket"
    /\ log' = log \o << Did("returned", "_get_socket_ready"),
                       Did("await", "fetch_client_user") >>
    /\ spc' = "await_fetch"
    /\ UNCHANGED <<gateway, client_id, res, session_open, pending, outcome, nonStartVars>>

\* gateway._get_socket_ready() raises: outside the try, the error propagates
SocketFails ==
    /\ spc = "await_socket"
    /\ log' = Append(log, Did("raised", "_get_socket_ready"))
    /\ spc' = "raised"
    /\ outcome' = [error |-> "Other", from |-> "_get_socket_ready"]
    /\ UNCHANGED <<gateway, client_id, res, session_open, pending, nonStartVars>>

\* gateway._get_socket_ready() raises exceptions.Unauthorized: the await of
\* line 181 is before the try, so the except clause does not apply
SocketUnauthorized ==
    /\ spc = "await_socket"
    /\ log' = Append(log, Did("raised Unauthorized", "_get_socket_ready"))
    /\ spc' = "raised"
    /\ outcome' = [error |-> "Unauthorized", from |-> "_get_socket_ready"]
    /\ UNCHANGED <<gateway, client_id, res, session_open, pending, nonStartVars>>

AssignedIdStale(user_id) == client_id

\* self._client_id = res.id
AssignedId(user_id) == user_id

\* rest.fetch_client_user() returns the user: lines 185-189, up to the await
FetchOk(user_id) ==
    /\ spc = "await_fetch"
    /\ res' = Some(user_id)
    /\ client_id' = AssignedId(user_id)
    /\ log' = log \o << Did("returned", "fetch_client_user"),
                       Did("set", "_client_id"),
                       Did("dispatch STARTED", "self"),
                       Did("await", "listen_gateway") >>
    /\ spc' = "listening"
    /\ UNCHANGED <<gateway, session_open, pending, outcome, nonStartVars>>

\* an awaited call inside the try raises exceptions.Unauthorized: the except
\* clause starts closing the REST session
CatchUnauthorized(from) ==
    /\ log' = log \o << Did("raised Unauthorized", from),
                       Did("await", "_session.close") >>
    /\ pending' = [error |-> "Unauthorized", from |-> from]
    /\ spc' = "closing"
    /\ UNCHANGED <<gateway, client_id, res, session_open, outcome, nonStartVars>>

PropagateAfterClosing(from) ==
    /\ log' = Append(log, Did("raised", from))
    /\ spc' = "raised"
    /\ session_open' = FALSE
    /\ outcome' = [error |-> "Other", from |-> from]
    /\ UNCHANGED <<gateway, client_id, res, pending, nonStartVars>>

\* an awaited call inside the try raises anything else: no clause catches it
Propagate(from) ==
    /\ log' = Append(log, Did("raised", from))
    /\ spc' = "raised"
    /\ outcome' = [error |-> "Other", from |-> from]
    /\ UNCHANGED <<gateway, client_id, res, session_open, pending, nonStartVars>>

FetchUnauthorized == spc = "await_fetch" /\ CatchUnauthorized("fetch_client_user")

FetchFails == spc = "await_fetch" /\ Propagate("fetch_client_user")

ListenUnauthorized == spc = "listening" /\ CatchUnauthorized("listen_gateway")

ListenFails == spc = "listening" /\ Propagate("listen_gateway")

\* gateway.listen_gateway() returns: start() returns
ListenReturns ==
    /\ spc = "listening"
    /\ log' = Append(log, Did("returned", "listen_gateway"))
    /\ spc' = "returned"
    /\ UNCHANGED <<gateway, client_id, res, session_open, pending, outcome, nonStartVars>>

ReraiseWithoutClosing ==
    /\ spc = "closing"
    /\ spc' = "raised"
    /\ outcome' = pending
    /\ UNCHANGED <<log, gateway, client_id, res, session_open, pending, nonStartVars>>

\* rest._session.close() returns, then "raise e"
CloseAndReraise ==
    /\ spc = "closing"
    /\ session_open' = FALSE
    /\ log' = Append(log, Did("returned", "_session.close"))
    /\ spc' = "raised"
    /\ outcome' = pending
    /\ UNCHANGED <<gateway, client_id, res, pending, nonStartVars>>

(***************************************************************************)
(* CommandsClient: the slash command and group registries                  *)
(***************************************************************************)
\* CommandsClient instances in the process
NumClients == 2
\* identities of the distinct command (group) objects that carry one name
ObjectIds == {1, 2}

Clients == 1..NumClients
Names == {"ping", "echo"}

\* SlashCommand / SlashGroup objects: a name and the object's identity
Commands == [name : Names, id : ObjectIds]

\* the objects that can hold a slash_commands attribute: the class and the
\* instances
\* the class object CommandsClient, beside the instances 1..NumClients
CommandsClientClass == 0

Holders == {CommandsClientClass} \cup Clients

HolderPerInstance(c) == c

\* where self.slash_commands / self.slash_groups is found for instance c: the
\* dicts are class attributes and no instance attribute ever shadows them
Holder(c) == CommandsClientClass

EmptyDict == [n \in {} |-> 0]

\* d[k] = v
SetItem(d, k, v) == [n \in (DOMAIN d) \cup {k} |-> IF n = k THEN v ELSE d[n]]

SlashCommandsOf(c) == slash_commands[Holder(c)]
SlashGroupsOf(c) == slash_groups[Holder(c)]

RegEvent(op, c, cmd, result) == [op |-> op, client |-> c, cmd |-> cmd, result |-> result]

InitRegVars ==
    /\ slash_commands = [h \in Holders |-> EmptyDict]
    /\ slash_groups = [h \in Holders |-> EmptyDict]
    /\ rev = RegEvent("init", 0, [name |-> "", id |-> 0], "ok")
    /\ registered = {}

AddSlashCommandOverwriting(c, command) ==
    /\ slash_commands' = [slash_commands EXCEPT ![Holder(c)] =
                             SetItem(SlashCommandsOf(c), command.name, command)]
    /\ rev' = RegEvent("add_slash_command", c, command, "ok")
    /\ registered' = registered \cup {[kind |-> "command", by |-> c, obj |-> command]}
    /\ UNCHANGED <<slash_groups, nonRegVars>>

\* the body of add_slash_command: what it does to the registries
RegisterCommand(c, command) ==
    IF command.name \in DOMAIN SlashCommandsOf(c)
    THEN /\ rev' = RegEvent("add_slash_command", c, command, "CommandAlreadyExists")
         /\ UNCHANGED <<slash_commands, slash_groups, registered>>
    ELSE /\ slash_commands' = [slash_commands EXCEPT ![Holder(c)] =
                                  SetItem(SlashCommandsOf(c), command.name, command)]
         /\ rev' = RegEvent("add_slash_command", c, command, "ok")
         /\ registered' = registered \cup {[kind |-> "command", by |-> c, obj |-> command]}
         /\ UNCHANGED slash_groups

\* CommandsClient.add_slash_command
AddSlashCommand(c, command) ==
    /\ RegisterCommand(c, command)
    /\ UNCHANGED nonRegVars

\* CommandsClient.add_slash_group
AddSlashGroup(c, group) ==
    IF group.name \in DOMAIN SlashGroupsOf(c)
    THEN /\ rev' = RegEvent("add_slash_group", c, group, "CommandAlreadyExists")
         /\ UNCHANGED <<slash_commands, slash_groups, registered, nonRegVars>>
    ELSE /\ slash_groups' = [slash_groups EXCEPT ![Holder(c)] =
                                SetItem(SlashGroupsOf(c), group.name, group)]
         /\ rev' = RegEvent("add_slash_group", c, group, "ok")
         /\ registered' = registered \cup {[kind |-> "group", by |-> c, obj |-> group]}
         /\ UNCHANGED <<slash_commands, nonRegVars>>

(***************************************************************************)
(* CommandsClient.set_prefix                                               *)
(***************************************************************************)
\* what set_prefix can be given: a string, a collection of strings, a callable
PrefixKinds == {"str", "list", "tuple", "set", "function", "coroutine function"}

\* the names bound in the module's globals (its imports and definitions) or in
\* builtins that set_prefix refers to
BoundNames == {"isinstance", "str", "list", "tuple", "set", "type"}

PrefixEvent(c, kind, returned, error) ==
    [client |-> c, kind |-> kind, returned |-> returned, error |-> error]

InitPrefixVars ==
    /\ prefix_type = [c \in Clients |-> "unset"]
    /\ pev = PrefixEvent(0, "none", 0, "none")

\* CommandsClient.set_prefix: returns self (here: the instance's number), or
\* ends with an exception
SetPrefix(c, kind) ==
    /\ IF kind = "str"
       THEN /\ prefix_type' = [prefix_type EXCEPT ![c] = "str"]
            /\ pev' = PrefixEvent(c, kind, c, "none")
       ELSE IF kind \in {"list", "tuple", "set"}
       THEN /\ prefix_type' = [prefix_type EXCEPT ![c] = kind]   \* type(prefix_or_function)
            /\ pev' = PrefixEvent(c, kind, c, "none")
       ELSE IF "function" \notin BoundNames
       THEN /\ pev' = PrefixEvent(c, kind, 0, "NameError")       \* isinstance(..., function)
            /\ UNCHANGED prefix_type
       ELSE /\ prefix_type' = [prefix_type EXCEPT ![c] =
                                  IF kind \in {"function", "coroutine function"}
                                  THEN "function" ELSE @]
            /\ pev' = PrefixEvent(c, kind, c, "none")
    /\ UNCHANGED nonPrefixVars

(***************************************************************************)
(* CommandsClient.include                                                  *)
(***************************************************************************)
\* EventListener objects: the callback's name and the object's identity
Listeners == [name : {"on_message"}, id : ObjectIds]

\* the commands and groups handed to include: distinct objects of one name
Includable == {o \in Commands : o.name = "ping"}

\* what include can be given
IncludeKinds == {"EventListener", "SlashCommand", "SlashGroup"}

\* no object: None, or nothing returned
NoObject == [name |-> "", id |-> 0]

IncludeEvent(c, kind, obj, returned, error) ==
    [client |-> c, kind |-> kind, obj |-> obj, returned |-> returned, error |-> error]

InitInclVars ==
    /\ listeners = [c \in Clients |-> {}]
    /\ iev = IncludeEvent(0, "none", NoObject, NoObject, "none")

\* EventHandler.add_listener of instance c's event handler
AddListener(c, lsnr) == listeners' = [listeners EXCEPT ![c] = @ \cup {lsnr}]

IncludeReturningNone(c, kind, obj) ==
    /\ IF kind = "EventListener"
       THEN /\ AddListener(c, obj)
            /\ iev' = IncludeEvent(c, kind, obj, NoObject, "none")
            /\ UNCHANGED regVars
       ELSE IF kind = "SlashCommand"
       THEN /\ RegisterCommand(c, obj)
            /\ iev' = IncludeEvent(c, kind, obj, NoObject,
                                   IF rev'.result = "ok" THEN "none" ELSE rev'.result)
            /\ UNCHANGED listeners
       ELSE /\ iev' = IncludeEvent(c, kind, obj, NoObject, "none")
            /\ UNCHANGED <<listeners, regVars>>
    /\ UNCHANGED nonRegOrInclVars

\* CommandsClient.include: inner() registers by the object's type, then the
\* object is returned; an exception of add_slash_command propagates
Include(c, kind, obj) ==
    /\ IF kind = "EventListener"
       THEN /\ AddListener(c, obj)
            /\ iev' = IncludeEvent(c, kind, obj, obj, "none")
            /\ UNCHANGED regVars
       ELSE IF kind = "SlashCommand"
       THEN /\ RegisterCommand(c, obj)
            /\ iev' = IF rev'.result = "ok"
                      THEN IncludeEvent(c, kind, obj, obj, "none")
                      ELSE IncludeEvent(c, kind, obj, NoObject, rev'.result)
            /\ UNCHANGED listeners
       ELSE /\ iev' = IncludeEvent(c, kind, obj, obj, "none")
            /\ UNCHANGED <<listeners, regVars>>
    /\ UNCHANGED nonRegOrInclVars

(***************************************************************************)
(* Modal                                                                   *)
(***************************************************************************)
\* Modal objects created in one behaviour
MaxModals == 2
\* longest list of text inputs
MaxItems == 2

\* TextInput objects
TextInputs == {"name", "email"}

\* The list object that is the default of the text_inputs attribute: "= []" is
\* evaluated once, when the class body runs, and attrs stores that object in
\* every instance built without text_inputs.
DefaultTextInputs == 1

\* the list of a Modal, read through its reference
TextInputsOf(m) == lists[modals[m].text_inputs]

InitModalVars ==
    /\ lists = << <<>> >>
    /\ modals = <<>>

\* Modal(title=..., custom_id=...): text_inputs takes the attribute's default
NewModal ==
    /\ Len(modals) < MaxModals
    /\ modals' = Append(modals, [text_inputs |-> DefaultTextInputs, by_default |-> TRUE,
                                 appended |-> <<>>])
    /\ UNCHANGED <<lists, nonModalVars>>

\* Modal(title=..., custom_id=..., text_inputs=[]): the caller's own, new list
NewModalWithList ==
    /\ Len(modals) < MaxModals
    /\ lists' = Append(lists, <<>>)
    /\ modals' = Append(modals, [text_inputs |-> Len(lists) + 1, by_default |-> FALSE,
                                 appended |-> <<>>])
    /\ UNCHANGED nonModalVars

\* Modal.add_item; "appended" keeps what this Modal was given, in order
AddItem(m, text_input) ==
    /\ Len(TextInputsOf(m)) < MaxItems
    /\ lists' = [lists EXCEPT ![modals[m].text_inputs] = Append(@, text_input)]
    /\ modals' = [modals EXCEPT ![m].appended = Append(@, text_input)]
    /\ UNCHANGED nonModalVars

(***************************************************************************)
(* create_timestamp                                                        *)
(***************************************************************************)
\* the instant of the call, in seconds since the epoch (UTC)
Nows == {86400, 90000, 1000000}
\* the host's local zone, in seconds east of UTC
Offsets == {-18000, 0, 3600, 19800}
\* timedelta arguments, in seconds
Durations == {0, 10, 3600}
Styles == {"t", "R"}

\* A datetime is its wall-clock reading (seconds since 1970-01-01 00:00:00 on
\* its own calendar) and its tzinfo: "naive", or an offset in seconds.
Naive(wall) == [wall |-> wall, tz |-> "naive", utcoffset |-> 0]
Aware(wall, offset) == [wall |-> wall, tz |-> "aware", utcoffset |-> offset]

\* datetime.datetime.utcnow(): the UTC wall clock, without tzinfo
UtcNow(now) == Naive(now)

\* datetime + timedelta: the wall clock moves, the tzinfo stays
Plus(dt, seconds) == [dt EXCEPT !.wall = @ + seconds]

\* datetime.timestamp(): a naive datetime is read as local time of the host
Timestamp(dt, host_offset) ==
    IF dt.tz = "naive" THEN dt.wall - host_offset ELSE dt.wall - dt.utcoffset

\* f"<t:{...}:{style}>"
Markup(seconds, style) ==
    [open |-> "<t:", seconds |-> seconds, sep |-> ":", style |-> style, close |-> ">"]

\* arguments: a timedelta, or an aware datetime (here: in UTC)
TimestampArgs ==
    {[kind |-> "timedelta", seconds |-> d, at |-> Naive(0)] : d \in Durations}
    \cup {[kind |-> "datetime", seconds |-> 0, at |-> Aware(e, 0)] : e \in Nows}

InitTsVars ==
    ts = [called |-> FALSE, now |-> 0, offset |-> 0,
          arg |-> [kind |-> "none", seconds |-> 0, at |-> Naive(0)],
          result |-> Markup(0, "")]

\* create_timestamp(dt, style=style), called at instant now on a host whose
\* local zone is offset
CreateTimestamp(now, offset, arg, style) ==
    /\ LET dt == IF arg.kind = "timedelta"
                 THEN Plus(UtcNow(now), arg.seconds)
                 ELSE arg.at
       IN  ts' = [called |-> TRUE, now |-> now, offset |-> offset, arg |-> arg,
                  result |-> Markup(Timestamp(dt, offset), style)]
    /\ UNCHANGED nonTsVars

(***************************************************************************)
(* Specifications                                                          *)
(***************************************************************************)
\* a Task that was built and not yet used
IdleTask ==
    /\ delay = 30
    /\ wait_until_complete = TRUE
    /\ is_running = FALSE
    /\ runners = <<>>
    /\ detached = 0
    /\ calls = <<>>
    /\ ev = Event("init", 0, FALSE, FALSE)

\* a builder that is not part of the behaviour
IdleBuilder ==
    builder = [applied |-> FALSE, s |-> None, m |-> None, h |-> None, w |-> TRUE,
               result |-> [kind |-> "pending"]]

InitTask == InitTaskVars /\ IdleBuilder /\ InitStartVars /\ InitRegVars /\ InitPrefixVars /\ InitInclVars /\ InitModalVars /\ InitTsVars

NextTask ==
    \/ Run
    \/ Stop
    \/ \E d \in Delays : UpdateDelay(d)
    \/ \E r \in RunnerIds : RunnerStart(r)
    \/ \E r \in RunnerIds : SleepDone(r)
    \/ \E r \in RunnerIds : TriggerReturns(r)
    \/ \E r \in RunnerIds : TriggerRaises(r)
    \/ DetachedFinishes

SpecTask == InitTask /\ [][NextTask]_vars

\* The event loop runs every ready coroutine; sleeps and triggers terminate.
FairSpecTask ==
    /\ SpecTask
    /\ \A r \in 1..MaxRunners : WF_vars(r \in RunnerIds /\ RunnerStep(r))
    /\ WF_vars(DetachedFinishes)

InitBuilder == IdleTask /\ InitBuilderVars /\ InitStartVars /\ InitRegVars /\ InitPrefixVars /\ InitInclVars /\ InitModalVars /\ InitTsVars

NextBuilder == ApplyBuilder

SpecBuilder == InitBuilder /\ [][NextBuilder]_vars

InitStart == IdleTask /\ IdleBuilder /\ InitStartVars /\ InitRegVars /\ InitPrefixVars /\ InitInclVars /\ InitModalVars /\ InitTsVars

NextStart ==
    \/ \E a \in Activities, s \in Statuses : StartCall(a, s)
    \/ SocketReady
    \/ SocketFails
    \/ SocketUnauthorized
    \/ \E id \in UserIds : FetchOk(id)
    \/ FetchUnauthorized
    \/ FetchFails
    \/ ListenUnauthorized
    \/ ListenFails
    \/ ListenReturns
    \/ CloseAndReraise

SpecStart == InitStart /\ [][NextStart]_vars

InitRegistry == IdleTask /\ IdleBuilder /\ InitStartVars /\ InitRegVars /\ InitPrefixVars /\ InitInclVars /\ InitModalVars /\ InitTsVars

NextRegistry ==
    \/ \E c \in Clients, command \in Commands : AddSlashCommand(c, command)
    \/ \E c \in Clients, group \in Commands : AddSlashGroup(c, group)

SpecRegistry == InitRegistry /\ [][NextRegistry]_vars

InitPrefix == IdleTask /\ IdleBuilder /\ InitStartVars /\ InitRegVars /\ InitPrefixVars /\ InitInclVars /\ InitModalVars /\ InitTsVars

NextPrefix == \E c \in Clients, kind \in PrefixKinds : SetPrefix(c, kind)

SpecPrefix == InitPrefix /\ [][NextPrefix]_vars

InitInclude == IdleTask /\ IdleBuilder /\ InitStartVars /\ InitRegVars /\ InitPrefixVars /\ InitInclVars /\ InitModalVars /\ InitTsVars

NextInclude ==
    \/ \E c \in Clients, l \in Listeners : Include(c, "EventListener", l)
    \/ \E c \in Clients, command \in Includable : Include(c, "SlashCommand", command)
    \/ \E c \in Clients, group \in Includable : Include(c, "SlashGroup", group)

SpecInclude == InitInclude /\ [][NextInclude]_vars

InitModal == IdleTask /\ IdleBuilder /\ InitStartVars /\ InitRegVars /\ InitPrefixVars /\ InitInclVars /\ InitModalVars /\ InitTsVars

NextModal ==
    \/ NewModal
    \/ NewModalWithList
    \/ \E m \in 1..Len(modals), x \in TextInputs : AddItem(m, x)

SpecModal == InitModal /\ [][NextModal]_vars

InitTimestamp == IdleTask /\ IdleBuilder /\ InitStartVars /\ InitRegVars /\ InitPrefixVars /\ InitInclVars /\ InitModalVars /\ InitTsVars

NextTimestamp ==
    \E now \in Nows, offset \in Offsets, arg \in TimestampArgs, style \in Styles :
        CreateTimestamp(now, offset, arg, style)

SpecTimestamp == InitTimestamp /\ [][NextTimestamp]_vars

(***************************************************************************)
(* Properties of Task                                                      *)
(***************************************************************************)

\* C1: in wait-until-complete mode two invocations of the trigger are never
\* in progress at the same time.
C1_NoOverlapInWaitMode == wait_until_complete = TRUE => InProgress <= 1

\* C2: run() on a Task whose flag is set raises, leaves the flag set and
\* schedules no runner; run() on a Task whose flag is clear sets the flag and
\* schedules exactly one runner; after stop() the flag is false.
C2_RunStopContract ==
    [][ /\ (is_running /\ ev'.op \in {"run", "run_error"}) =>
              /\ ev'.op = "run_error"
              /\ is_running'
              /\ runners' = runners
        /\ (~is_running /\ ev'.op \in {"run", "run_error"}) =>
              /\ ev'.op = "run"
              /\ is_running'
              /\ runners' = Append(runners, NewRunner)
        /\ ev'.op = "stop" => ~is_running'
      ]_vars

\* a second run() without a stop() in between was refused
C2_DoubleStartRefused ==
    /\ ev.op = "run_error"
    /\ is_running
    /\ Len(runners) = 1

\* C3 as stated: a runner that was asleep when stop() was called performs one
\* more invocation when that sleep completes.
C3_FiresOnceMoreAfterStop == (ev.op = "wake" /\ ev.after_stop) => ev.fired

\* C3 as amended: a runner that was asleep when stop() was called finishes the
\* sleep and tests the flag again: it invokes the trigger again exactly when a
\* later run() has set the flag by then, and otherwise returns without
\* another invocation.
C3_WakeAfterStopTestsFlag ==
    (ev.op = "wake" /\ ev.after_stop) =>
        /\ ev.fired <=> is_running
        /\ ~ev.fired => runners[ev.r].pc = "done"

\* a runner woke from a sleep during which stop() was called, and returned
C3_StoppedAsleepThenExited ==
    /\ ev.op = "wake"
    /\ ev.after_stop
    /\ ~ev.fired
    /\ ~is_running
    /\ runners[ev.r].pc = "done"

AllRunnersExited == \A r \in RunnerIds : ~Alive(r)

\* C4: stop() cancels no invocation that is in flight, and once the flag stays
\* clear (no later run()) every invocation finishes and every runner exits, so
\* that no invocation is started any more.
C4_StopLetsInFlightFinish ==
    /\ [][ev'.op = "stop" =>
            /\ detached' = detached
            /\ \A r \in RunnerIds : runners'[r].pc = runners[r].pc]_vars
    /\ [][(AllRunnersExited /\ ~is_running /\ ev'.op # "run") =>
            (AllRunnersExited' /\ InProgress' <= InProgress)]_vars
    /\ (<>[](~is_running)) => <>[](AllRunnersExited /\ InProgress = 0)

\* stop() was just called while an invocation is in flight, which is still there
C4_StoppedWithInvocationInFlight ==
    /\ ev.op = "stop"
    /\ ~is_running
    /\ InProgress > 0

(***************************************************************************)
(* Properties of the task() builder                                        *)
(***************************************************************************)
Supplied == {i \in 1..3 : <<builder.s, builder.m, builder.h>>[i] # None}

\* C5: with exactly one of s, m, h supplied (0 included) the builder yields a
\* Task with delay s, m*60 or h*3600, not running, with the given wait flag;
\* with none or several it raises ValueError.
C5_BuilderContract ==
    builder.applied =>
        IF Cardinality(Supplied) = 1
        THEN builder.result =
                [kind |-> "Task",
                 delay |-> IF builder.s # None THEN builder.s[1]
                           ELSE IF builder.m # None THEN builder.m[1] * 60
                           ELSE builder.h[1] * 3600,
                 wait_until_complete |-> builder.w,
                 is_running |-> FALSE]
        ELSE builder.result = [kind |-> "ValueError"]

(***************************************************************************)
(* Properties of GatewayClient.start                                       *)
(***************************************************************************)
Done(e) == \E i \in 1..Len(log) : log[i] = e

\* position of the first occurrence of e in the log
Pos(e) == CHOOSE i \in 1..Len(log) : log[i] = e /\ \A j \in 1..(i - 1) : log[j] # e

\* b was done only after a
Before(a, b) == Done(b) => (Done(a) /\ Pos(a) < Pos(b))

Starting == Did("dispatch STARTING", "self")
Started == Did("dispatch STARTED", "self")
SocketWait == Did("await", "_get_socket_ready")
SocketIsReady == Did("returned", "_get_socket_ready")
FetchCall == Did("await", "fetch_client_user")
FetchReturned == Did("returned", "fetch_client_user")
IdRecorded == Did("set", "_client_id")
ListenEntered == Did("await", "listen_gateway")
PresenceRecorded == {e \in {log[i] : i \in 1..Len(log)} :
                        e.op \in {"set _start_activity", "set _start_status"}}

\* C6: STARTING (payload: the client) is dispatched before the activity and
\* status are recorded and before the wait for the socket; the user is fetched
\* only after the socket is ready; STARTED is dispatched only after the fetch
\* succeeded and the id was recorded; the listen loop is entered only after
\* STARTED.
C6_StartOrder ==
    /\ \A e \in PresenceRecorded : Before(Starting, e)
    /\ Before(Starting, SocketWait)
    /\ Before(SocketIsReady, FetchCall)
    /\ Before(FetchReturned, Started)
    /\ Before(IdRecorded, Started)
    /\ Before(Started, ListenEntered)
    /\ spc = "listening" => Done(ListenEntered)
    /\ spc # "idle" =>
          /\ Done(Did("set _start_activity", gateway._start_activity))
          /\ Done(Did("set _start_status", gateway._start_status))

\* start() went all the way into the listen loop
C6_Listening ==
    /\ spc = "listening"
    /\ Done(Starting)
    /\ Done(Started)
    /\ gateway._start_status = "idle"

FetchWasUnauthorized == Done(Did("raised Unauthorized", "fetch_client_user"))

\* C7: when the fetch of the bot user fails with Unauthorized, the session is
\* closed and that same error reaches the caller; STARTED is never dispatched,
\* the listen loop is never entered and the client id stays 0.
C7_UnauthorizedFetch ==
    FetchWasUnauthorized =>
        /\ spc \in {"closing", "raised"}
        /\ spc = "raised" =>
              /\ ~session_open
              /\ outcome = [error |-> "Unauthorized", from |-> "fetch_client_user"]
        /\ ~Done(Started)
        /\ ~Done(ListenEntered)
        /\ client_id = 0

\* start() has ended with the Unauthorized error of the fetch
C7_UnauthorizedRaised ==
    /\ FetchWasUnauthorized
    /\ spc = "raised"
    /\ outcome.error = "Unauthorized"
    /\ ~session_open

\* C8: the client id is 0 until the fetch of the bot user succeeds, is assigned
\* once, to the fetched user's id and only after the fetch succeeded, and
\* equals the fetched id wherever STARTED has been dispatched.
C8_ClientIdOnce ==
    /\ [](~Done(FetchReturned) => client_id = 0)
    /\ [](Done(Started) => (res # None /\ client_id = res[1]))
    /\ [](Before(FetchReturned, IdRecorded))
    /\ [](Cardinality({i \in 1..Len(log) : log[i] = IdRecorded}) <= 1)
    /\ [][client_id' # client_id =>
            /\ client_id = 0
            /\ ~Done(IdRecorded)
            /\ res' # None
            /\ client_id' = res'[1]]_vars

\* STARTED was dispatched with the id of the fetched user recorded
C8_IdResolved ==
    /\ Done(Started)
    /\ client_id = 202
    /\ res = Some(202)

(***************************************************************************)
(* Properties of the slash command and group registries                    *)
(***************************************************************************)
\* what a call of add_slash_command made in this step must have done
CommandRegistrationStep ==
    rev'.op = "add_slash_command" =>
        LET d == SlashCommandsOf(rev'.client)
            o == rev'.cmd
        IN  IF o.name \in DOMAIN d
            THEN /\ rev'.result = "CommandAlreadyExists"
                 /\ slash_commands' = slash_commands
                 /\ slash_groups' = slash_groups
            ELSE /\ rev'.result = "ok"
                 /\ slash_commands'[Holder(rev'.client)] = SetItem(d, o.name, o)
                 /\ slash_groups' = slash_groups

\* what a call of add_slash_group made in this step must have done
GroupRegistrationStep ==
    rev'.op = "add_slash_group" =>
        LET d == SlashGroupsOf(rev'.client)
            o == rev'.cmd
        IN  IF o.name \in DOMAIN d
            THEN /\ rev'.result = "CommandAlreadyExists"
                 /\ slash_commands' = slash_commands
                 /\ slash_groups' = slash_groups
            ELSE /\ rev'.result = "ok"
                 /\ slash_groups'[Holder(rev'.client)] = SetItem(d, o.name, o)
                 /\ slash_commands' = slash_commands

\* C9: registering a name that is already a key raises CommandAlreadyExists and
\* leaves both registries as they were; registering a new name binds it to the
\* given object and changes nothing else; so every object whose registration
\* succeeded stays retrievable under its name.
C9_Registration ==
    /\ [][CommandRegistrationStep /\ GroupRegistrationStep]_vars
    /\ [](\A e \in registered :
            LET d == IF e.kind = "command" THEN SlashCommandsOf(e.by)
                                           ELSE SlashGroupsOf(e.by)
            IN  e.obj.name \in DOMAIN d /\ d[e.obj.name] = e.obj)

\* a second object with a registered name was refused, the first one is still
\* bound, and a command with another name is registered beside it
C9_DuplicateRefused ==
    /\ rev.op = "add_slash_command"
    /\ rev.result = "CommandAlreadyExists"
    /\ SlashCommandsOf(rev.client)[rev.cmd.name] # rev.cmd
    /\ DOMAIN SlashCommandsOf(rev.client) = Names

\* C10: the registries are shared by all instances: what one instance has
\* registered every instance sees in its registry, and every instance is
\* refused that name.
C10_SharedRegistries ==
    /\ [](\A e \in registered, c \in Clients :
            LET d == IF e.kind = "command" THEN SlashCommandsOf(c)
                                           ELSE SlashGroupsOf(c)
            IN  e.obj.name \in DOMAIN d /\ d[e.obj.name] = e.obj)
    /\ [][\A e \in registered :
            (rev'.op = (IF e.kind = "command" THEN "add_slash_command"
                                              ELSE "add_slash_group")
             /\ rev'.cmd.name = e.obj.name)
            => rev'.result = "CommandAlreadyExists"]_vars

\* an instance was refused a name that another instance had registered
C10_RefusedAcrossInstances ==
    /\ rev.result = "CommandAlreadyExists"
    /\ \E e \in registered :
          /\ e.by # rev.client
          /\ e.kind = (IF rev.op = "add_slash_command" THEN "command" ELSE "group")
          /\ e.obj.name = rev.cmd.name

(***************************************************************************)
(* Properties of CommandsClient.set_prefix                                 *)
(***************************************************************************)
\* C11: set_prefix records the kind of the value it is given and returns the
\* client it was called on, for a string, for a list, tuple or set, and for a
\* callable; it never ends in an error.
C11_SetPrefixRecordsKind ==
    pev.kind # "none" =>
        /\ pev.error = "none"
        /\ pev.returned = pev.client
        /\ prefix_type[pev.client] =
              (IF pev.kind \in {"function", "coroutine function"} THEN "function"
               ELSE pev.kind)

(***************************************************************************)
(* Properties of CommandsClient.include                                    *)
(***************************************************************************)
\* C12: include of an EventListener adds it to the instance's listeners and
\* leaves the registries alone; include of a SlashCommand does what
\* add_slash_command does (the duplicate error included) and leaves the
\* listeners alone; whenever include returns, it returns the object given.
C12_Include ==
    [][LET c == iev'.client
           o == iev'.obj
       IN  /\ iev'.kind = "EventListener" =>
                 /\ listeners' = [listeners EXCEPT ![c] = @ \cup {o}]
                 /\ slash_commands' = slash_commands
                 /\ slash_groups' = slash_groups
                 /\ iev'.error = "none"
           /\ iev'.kind = "SlashCommand" =>
                 /\ listeners' = listeners
                 /\ rev' = RegEvent("add_slash_command", c, o, rev'.result)
                 /\ CommandRegistrationStep
                 /\ iev'.error = (IF rev'.result = "ok" THEN "none" ELSE rev'.result)
           /\ (iev'.kind \in {"EventListener", "SlashCommand"} /\ iev'.error = "none") =>
                 iev'.returned = o
      ]_vars

\* include has registered a listener and a command, and was then refused a
\* second command of the same name
C12_IncludedBoth ==
    /\ iev.kind = "SlashCommand"
    /\ iev.error = "CommandAlreadyExists"
    /\ listeners[iev.client] # {}
    /\ iev.obj.name \in DOMAIN SlashCommandsOf(iev.client)
    /\ SlashCommandsOf(iev.client)[iev.obj.name] # iev.obj

(***************************************************************************)
(* Properties of Modal                                                     *)
(***************************************************************************)
\* C13: the text_inputs of a Modal built without text_inputs are exactly the
\* fields appended to that Modal with add_item, in the order of the appends,
\* whatever other Modal objects were created or modified.
C13_TextInputsAreOwnAppends ==
    \A m \in 1..Len(modals) :
        modals[m].by_default => TextInputsOf(m) = modals[m].appended

(***************************************************************************)
(* Properties of create_timestamp                                          *)
(***************************************************************************)
\* C14: for a duration D the result is <t:X:style> with X within a small
\* tolerance (2 s) of the UTC epoch second of the call plus D, whatever the
\* local zone of the host.
C14_DurationFromUtcNow ==
    (ts.called /\ ts.arg.kind = "timedelta") =>
        LET x == ts.result.seconds
            expected == ts.now + ts.arg.seconds
        IN  /\ x - expected <= 2
            /\ expected - x <= 2
            /\ ts.result = Markup(x, ts.result.style)

(***************************************************************************)
(* Error handling of GatewayClient.start                                   *)
(***************************************************************************)
\* the awaited calls of the try statement (lines 184-189)
InsideTry == {"fetch_client_user", "listen_gateway"}

\* the exceptions raised so far by the calls start() awaited
Raised ==
    {[error |-> IF log[i].op = "raised" THEN "Other" ELSE "Unauthorized",
      from |-> log[i].arg] :
        i \in {j \in 1..Len(log) : log[j].op \in {"raised", "raised Unauthorized"}}}

\* every exception raised by an awaited call ends start(): it is the one the
\* caller gets, or the one whose handler is closing the session
NothingSwallowed ==
    /\ Raised # {} => spc \in {"closing", "raised"}
    /\ spc = "closing" => Raised = {pending}
    /\ spc = "raised" => Raised = {outcome}
    /\ spc = "returned" => Raised = {}

\* C15 as stated: the session is closed only for an Unauthorized of the
\* handshake (the user fetch); every other failure (socket wait, another
\* error of the fetch, any failure of the listen loop) reaches the caller
\* unmodified with the session open, and nothing is swallowed.
C15_ClosedOnlyForHandshake ==
    /\ NothingSwallowed
    /\ ~session_open =>
          outcome = [error |-> "Unauthorized", from |-> "fetch_client_user"]

\* C15, amended: the session is closed exactly when start() has handled an
\* Unauthorized raised inside the try, by the user fetch or by the listen
\* loop; every other failure (any failure of the socket wait, Unauthorized
\* included, and every other error of the fetch or of the listen loop)
\* reaches the caller unmodified with the session open; nothing is swallowed.
C15_ClosedForUnauthorizedInTry ==
    /\ NothingSwallowed
    /\ ~session_open <=>
          /\ spc = "raised"
          /\ outcome.error = "Unauthorized"
          /\ outcome.from \in InsideTry

\* the listen loop raised Unauthorized: start() closed the session and
\* re-raised it
C15_ListenUnauthorizedClosed ==
    /\ spc = "raised"
    /\ outcome = [error |-> "Unauthorized", from |-> "listen_gateway"]
    /\ ~session_open

(***************************************************************************)
(* Further properties of Task                                              *)
(***************************************************************************)
\* the step is a pass of a runner through the head of its loop that started
\* an invocation of the trigger
Fires == ev'.op \in {"start", "wake"} /\ ev'.fired

\* C16: with wait_until_complete = False the runner starts each invocation
\* without waiting for it and begins the sleep for the configured delay in
\* the same step, so no runner ever waits for an invocation and invocations
\* of one Task can overlap.
C16_NoWaitFiresThenSleeps ==
    /\ [](wait_until_complete = FALSE =>
            \A r \in RunnerIds : runners[r].pc # "awaiting")
    /\ [][(wait_until_complete = FALSE /\ Fires) =>
            /\ detached' = detached + 1
            /\ runners'[ev'.r].pc = "sleeping"
            /\ runners'[ev'.r].sleep_for = delay]_vars

\* one runner, no-wait mode: it woke and started an invocation while the
\* previous one was still in progress
C16_TwoInvocationsOfOneRunner ==
    /\ wait_until_complete = FALSE
    /\ Len(runners) = 1
    /\ ev.op = "wake"
    /\ ev.fired
    /\ detached = 2

\* the step puts runner r into a sleep
BeginsSleep(r) ==
    /\ ev'.r = r
    /\ ev'.op \in {"start", "wake", "trigger_return"}
    /\ runners'[r].pc = "sleeping"

\* C17: update_delay changes only the delay: the flag, the wait mode, the
\* runners and the invocations are as before, so a sleep in progress keeps the
\* length it began with; every sleep that begins lasts the delay of that
\* moment, and keeps that length until it ends.
C17_UpdateDelay ==
    /\ [][ev'.op = "update_delay" =>
            /\ is_running' = is_running
            /\ wait_until_complete' = wait_until_complete
            /\ runners' = runners
            /\ detached' = detached
            /\ calls' = calls]_vars
    /\ [][\A r \in RunnerIds :
            /\ BeginsSleep(r) => runners'[r].sleep_for = delay
            /\ (runners[r].pc = "sleeping" /\ ev'.r # r) =>
                  /\ runners'[r].pc = "sleeping"
                  /\ runners'[r].sleep_for = runners[r].sleep_for]_vars

\* update_delay was just called during a sleep that began with another delay
C17_SleepKeepsOldDelay ==
    /\ ev.op = "update_delay"
    /\ \E r \in RunnerIds :
          /\ runners[r].pc = "sleeping"
          /\ runners[r].sleep_for # delay

\* C18: at any time at most one runner loop of the Task is alive.
C18_AtMostOneRunnerAlive == Cardinality({r \in RunnerIds : Alive(r)}) <= 1

\* C19: whenever the running flag is true a runner loop is alive.
C19_RunningMeansRunnerAlive == (is_running = TRUE) => \E r \in RunnerIds : Alive(r)

\* C20: every invocation made by the runner of run(*args, **kwargs) receives
\* exactly the positional arguments args and the keyword arguments kwargs.
C20_TriggerGetsRunArguments ==
    (ev.op \in {"start", "wake"} /\ ev.fired) =>
        /\ TriggerArguments(ev.r).args = calls[ev.r].args
        /\ TriggerArguments(ev.r).kwargs = calls[ev.r].kwargs

====
